---- MODULE Spec2Model ----
(***************************************************************************)
(* xtb_client: the response multiplexer of src/client.rs (XtbClient and    *)
(* the two ApiWrapper receiver tasks sharing one tag registry) and the     *)
(* response channel of src/api/response.rs (ResponseChannel, read, first,  *)
(* write, close over one ResponseSharedState and one tokio Notify).        *)
(*                                                                         *)
(* Tasks interleave as on tokio's multi-threaded runtime: a step is the    *)
(* code between two points where another task can observe shared state (a  *)
(* mutex critical section without an await inside it is one step).         *)
(***************************************************************************)
EXTENDS Integers, Sequences, FiniteSets, TLC

\* ------------------------------------------------------------------ bounds
\* Number of facade calls (send_api_command) in a run.
MaxCalls == 2
\* Number of payloads the two inbound streams yield together in a run.
MaxFrames == 2

\* ------------------------------------------------------------ data model
\* Option<T> is the empty set (None) or a singleton (Some).
None == {}
Some(v) == {v}
Unwrap(o) == CHOOSE v \in o : TRUE

\* The two ApiWrapper instances made by XtbClient::new.
Loops == {"api", "stream"}
\* Channels are numbered in creation order; the k-th make_response_channel
\* call creates channel k.
Chans == 1..MaxCalls

\* serde_json::Value, as far as the code inspects it. A scalar is <<kind, text>>;
\* Absent stands for Map::get returning None.
Absent == <<"absent", "">>
JNull == <<"null", "">>
JBool(b) == <<"bool", IF b THEN "true" ELSE "false">>
JString(s) == <<"string", s>>
JNumber(s) == <<"number", s>>

\* A top-level JSON value: an object with the keys the code reads or writes,
\* or a value that is not an object.
JObject(status, custom_tag, customTag, returnData) ==
    [kind |-> "object", status |-> status, custom_tag |-> custom_tag,
     customTag |-> customTag, returnData |-> returnData]
JNotObject ==
    [kind |-> "array", status |-> Absent, custom_tag |-> Absent,
     customTag |-> Absent, returnData |-> Absent]

\* Map::get: the value under key k of object obj, Absent when there is none.
Get(obj, k) == IF k \in DOMAIN obj THEN obj[k] ELSE Absent

\* XtbClient::generate_unique_custom_tag: format!("cmd_{}", id).
CustomTag(id) == "cmd_" \o ToString(id)

\* The keys sink_by_tag can hold in a run (one more than the run allocates).
TagStrings == {CustomTag(n) : n \in 1..(MaxCalls + 1)}

\* ---------------------------------------------------------- envelope codec
Ok(v) == [ok |-> TRUE, val |-> Some(v), err |-> ""]
Err(e) == [ok |-> FALSE, val |-> None, err |-> e]

\* get_response_top_level_object
get_response_top_level_object(value) ==
    IF value.kind = "object" THEN Ok(value) ELSE Err("NotAnObject")

\* get_response_status_from_top_level_object with a missing or non-boolean
\* status read as false (unwrap_or(false) in place of the two errors).
get_response_status_lenient(obj) ==
    IF obj.status = Absent THEN Ok(FALSE)
    ELSE IF obj.status[1] = "bool" THEN Ok(obj.status[2] = "true")
    ELSE Ok(FALSE)

\* get_response_status_from_top_level_object
get_response_status_from_top_level_object(obj) ==
    IF obj.status = Absent THEN Err("StatusFieldMissing")
    ELSE IF obj.status[1] = "bool" THEN Ok(obj.status[2] = "true")
    ELSE Err("InvalidStatusType")

\* get_custom_tag_from_top_level_object: reads the key "custom_tag".
get_custom_tag_from_top_level_object(obj) ==
    IF obj.custom_tag = Absent \/ obj.custom_tag = JNull THEN Ok(None)
    ELSE IF obj.custom_tag[1] = "string" THEN Ok(Some(obj.custom_tag[2]))
    ELSE Err("InvalidCustomTagType")

\* ResponseInfo::new with the tag extracted before the status.
ResponseInfoNewTagFirst(value) ==
    LET top == get_response_top_level_object(value) IN
    IF ~top.ok THEN Err(top.err)
    ELSE LET tag == get_custom_tag_from_top_level_object(value) IN
    IF ~tag.ok THEN Err(tag.err)
    ELSE LET status == get_response_status_from_top_level_object(value) IN
    IF ~status.ok THEN Err(status.err)
    ELSE Ok([status |-> Unwrap(status.val), custom_tag |-> Unwrap(tag.val),
             value |-> value])

\* ResponseInfo::new
ResponseInfoNew(value) ==
    LET top == get_response_top_level_object(value) IN
    IF ~top.ok THEN Err(top.err)
    ELSE LET status == get_response_status_from_top_level_object(value) IN
    IF ~status.ok THEN Err(status.err)
    ELSE LET tag == get_custom_tag_from_top_level_object(value) IN
    IF ~tag.ok THEN Err(tag.err)
    ELSE Ok([status |-> Unwrap(status.val), custom_tag |-> Unwrap(tag.val),
             value |-> value])

\* ResponseInfo::try_from(Message): the text of the message parsed as JSON and
\* handed to ResponseInfo::new. A message is modelled by the JSON value its
\* text parses to.
ResponseInfoTryFrom(message) == ResponseInfoNew(message)

\* OkOrNoResponse::ok_or_no_response
ok_or_no_response(opt) ==
    IF opt = None THEN Err("NoResponseReceived") ELSE Ok(Unwrap(opt))

\* Deserialize for Option<String>: a missing key (serde default) or null is
\* None, a string is Some, anything else is an error.
DeserializeOptionString(v) ==
    IF v \in {Absent, JNull} THEN Ok(None)
    ELSE IF v[1] = "string" THEN Ok(Some(v[2]))
    ELSE Err("DeserializationError")

\* Deserialize for CommandSuccess<()>: the keys are the field names
\* (return_data, stream_session_id, custom_tag), each with a default; other
\* keys are ignored.
DeserializeCommandSuccess(value) ==
    LET rd == Get(value, "return_data")
        sid == DeserializeOptionString(Get(value, "stream_session_id"))
        tag == DeserializeOptionString(Get(value, "custom_tag")) IN
    IF rd \notin {Absent, JNull} \/ ~sid.ok \/ ~tag.ok
    THEN Err("DeserializationError")
    ELSE Ok([status |-> TRUE, stream_session_id |-> Unwrap(sid.val),
             error_code |-> "", error_description |-> ""])

\* Deserialize for CommandFailed: the keys error_code and error_description
\* are required strings.
DeserializeCommandFailed(value) ==
    LET code == Get(value, "error_code")
        desc == Get(value, "error_description") IN
    IF code = Absent \/ desc = Absent THEN Err("DeserializationError")
    ELSE IF code[1] # "string" \/ desc[1] # "string"
    THEN Err("DeserializationError")
    ELSE Ok([status |-> FALSE, stream_session_id |-> None,
             error_code |-> code[2], error_description |-> desc[2]])

\* TryInto<CommandResult<D>> for ResponseInfo: the status picks the struct the
\* value is deserialized into.
TryIntoCommandResult(info) ==
    IF info.status THEN DeserializeCommandSuccess(info.value)
    ELSE DeserializeCommandFailed(info.value)

\* ------------------------------------------------------------ the inbound side
\* The messages an inbound stream can yield: replies keyed as the decoder reads
\* the tag ("custom_tag") for every tag the run can allocate and one it cannot
\* (a success for each, and a failure for the first), a reply keyed as the
\* encoder writes the tag ("customTag"), untagged replies, and frames that fail
\* classification.
TaggedReplies ==
    {JObject(JBool(TRUE), JString(CustomTag(n)), Absent, JNumber("1")) :
        n \in 1..(MaxCalls + 1)}
\* {"status":true,"customTag":"cmd_1","streamSessionId":"abc"}: the success
\* reply to a login sent with tag cmd_1, keyed as the server keys it.
LoginSuccessFrame ==
    [kind |-> "object", status |-> JBool(TRUE), custom_tag |-> Absent,
     customTag |-> JString(CustomTag(1)), returnData |-> Absent,
     streamSessionId |-> JString("abc")]
\* {"status":false,"customTag":"cmd_2","errorCode":"BE118",
\*  "errorDescription":"User already logged"}: the failure reply to a logout
\* sent with tag cmd_2, keyed as the server keys it.
LogoutFailureFrame ==
    [kind |-> "object", status |-> JBool(FALSE), custom_tag |-> Absent,
     customTag |-> JString(CustomTag(2)), returnData |-> Absent,
     errorCode |-> JString("BE118"),
     errorDescription |-> JString("User already logged")]

\* A success reply to the second tag keyed as the decoder and CommandSuccess
\* read it: "custom_tag" and "stream_session_id".
SessionReplyFrame ==
    [kind |-> "object", status |-> JBool(TRUE),
     custom_tag |-> JString(CustomTag(2)), customTag |-> Absent,
     returnData |-> Absent, stream_session_id |-> JString("abc")]

InboundMessages ==
    TaggedReplies \cup
    { LoginSuccessFrame, LogoutFailureFrame, SessionReplyFrame, JObject(JBool(FALSE), JString(CustomTag(1)), Absent, Absent),
      JObject(JBool(TRUE), Absent, JString(CustomTag(1)), JNumber("1")),
      JObject(JBool(TRUE), JNull, Absent, JNumber("1")),
      JObject(JBool(TRUE), JNumber("7"), Absent, JNumber("1")),
      JObject(Absent, JString(CustomTag(1)), Absent, JNumber("1")),
      JObject(JNumber("1"), JString(CustomTag(1)), Absent, JNumber("1")),
      JNotObject }

\* ------------------------------------------------------------------ state
VARIABLES
    next_id,        \* XtbClient.next_id
    sink_by_tag,    \* XtbClient.sink_by_tag: tag -> Option<channel of the stored sink>
    lock,           \* holder of the sink_by_tag mutex: "free" or a loop
    queue,          \* ResponseSharedState.queue, per channel
    closed,         \* ResponseSharedState.closed, per channel
    hooks,          \* channels whose sink was given an after-close callback
    hookRuns,       \* per channel, how many times that callback has been run
    pc,             \* per facade call: where its task is
    result,         \* per facade call: what first() returned (Option<ResponseInfo>)
    notified,       \* channels whose reader holds a live Notified future
    woken,          \* channels whose live Notified future notify_waiters() has hit
    dpc,            \* per receiver task: where it is
    dinfo,          \* per receiver task: the ResponseInfo being routed
    dsink,          \* per receiver task: the channel of the sink it looked up
    errSeen,        \* per receiver task: its stream has yielded Some(Err(_))
    dpayload,       \* the payload a for_each closure was last called with
                    \* (Result<Message, WSError>; None before the first)
    frames,         \* payloads the inbound streams have yielded (or, for a
                    \* channel used on its own, items its producer wrote) so far
    wpc,            \* per channel used on its own: where the task holding the
                    \* sink handle is ("none": no such task)
    written,        \* per channel, every item write() was called with, in order
    got,            \* per channel, the items successive read() calls returned
    stream_session_id,  \* XtbClient.stream_session_id
    outcome,        \* per facade call: what login() or logout() returned
    cstatus,        \* the task calling XtbStream::receive: "none" (no such
                    \* task), "running" or "panicked"
    clog,           \* what the receive() calls of that task returned, in order
    ccmd,           \* the ApiCommand handed to the encoder (Option)
    cframe,         \* the JSON value handed to the decoder
    cdecoded,       \* what the decoder returned for cframe (Option)
    cwire,          \* the command last serialized and the JSON object made of
                    \* it (Option)
    cbuild,         \* the last call of build_command: its is_streaming flag,
                    \* the session id stored then and the command built (Option)
    sres,           \* per channel: what the status() call on it returned, with
                    \* the channel state it read (Option)
    slock           \* per channel: holder of the ResponseSharedState mutex where
                    \* taking it is a step of its own: "free", a loop or
                    \* "stream_handle"

vars == <<next_id, sink_by_tag, lock, queue, closed, hooks, hookRuns, pc, result,
          notified, woken, dpc, dinfo, dsink, errSeen, dpayload, frames, wpc,
          written, got, stream_session_id, outcome, cstatus, clog, ccmd, cframe,
          cdecoded, cwire, cbuild, sres, slock>>

\* The state of the account calls, of a connection::XtbStream and of the codec
\* on its own.
accountVars == <<stream_session_id, outcome>>
connVars == <<cstatus, clog>>
codecVars == <<ccmd, cframe, cdecoded, cwire, cbuild>>
\* The state of a status() call.
statusVars == <<sres>>
\* The channel-state locks.
lockVars == <<slock>>

chanVars == <<queue, closed, notified, woken, written, got>>
loopVars == <<dpc, dinfo, dsink, errSeen, dpayload, frames, wpc>>
clientVars == <<next_id, sink_by_tag, lock, hooks>>

\* XtbClient::new and ApiWrapper::new: an empty registry, next_id 1, both
\* receiver tasks spawned and about to poll their stream.
Init ==
    /\ next_id = 1
    /\ sink_by_tag = [t \in TagStrings |-> None]
    /\ lock = "free"
    /\ queue = [c \in Chans |-> << >>]
    /\ closed = [c \in Chans |-> FALSE]
    /\ hooks = {}
    /\ hookRuns = [c \in Chans |-> 0]
    /\ pc = [c \in Chans |-> "idle"]
    /\ result = [c \in Chans |-> None]
    /\ notified = {}
    /\ woken = {}
    /\ dpc = [l \in Loops |-> "recv"]
    /\ dinfo = [l \in Loops |-> None]
    /\ dsink = [l \in Loops |-> None]
    /\ errSeen = [l \in Loops |-> FALSE]
    /\ dpayload = None
    /\ frames = 0
    /\ wpc = [c \in Chans |-> "none"]
    /\ written = [c \in Chans |-> << >>]
    /\ got = [c \in Chans |-> << >>]
    /\ stream_session_id = None
    /\ outcome = [c \in Chans |-> None]
    /\ cstatus = "none"
    /\ clog = << >>
    /\ ccmd = None
    /\ cframe = JNull
    /\ cdecoded = None
    /\ cwire = None
    /\ cbuild = None
    /\ sres = [c \in Chans |-> None]
    /\ slock = [c \in Chans |-> "free"]

\* ------------------------------------------------------- response channel
\* ReadLocked with the two checks swapped: the queue is looked at before the
\* closed flag.
ReadLockedQueueFirst(isClosed, q) ==
    IF Len(q) > 0 THEN [brk |-> TRUE, val |-> Some(Head(q)), queue |-> Tail(q)]
    ELSE IF isClosed THEN [brk |-> TRUE, val |-> None, queue |-> q]
    ELSE [brk |-> FALSE, val |-> None, queue |-> q]

\* ReadLocked without the check of the closed flag: the head of the queue is
\* returned whenever there is one.
ReadLockedIgnoringClosed(isClosed, q) ==
    IF Len(q) > 0 THEN [brk |-> TRUE, val |-> Some(Head(q)), queue |-> Tail(q)]
    ELSE [brk |-> isClosed, val |-> None, queue |-> q]

\* One pass of the loop body of ResponseChannel<ResponseStream>::read under the
\* state lock: break None when closed, else break with the popped head when
\* the queue is not empty, else leave the block and go on to notified().
ReadLocked(isClosed, q) ==
    IF isClosed THEN [brk |-> TRUE, val |-> None, queue |-> q]
    ELSE IF Len(q) > 0 THEN [brk |-> TRUE, val |-> Some(Head(q)), queue |-> Tail(q)]
    ELSE [brk |-> FALSE, val |-> None, queue |-> q]

\* WriteLocked with the item put at the head of the queue (push_front).
WriteLockedPushFront(isClosed, q, info) == <<info>> \o q

\* ResponseChannel<ResponseSink>::write, first statement: push_back under the
\* state lock (closed is not consulted).
WriteLocked(isClosed, q, info) == Append(q, info)

\* ResponseChannel::close: sets the flag; returns the new flag and how many
\* after-close callbacks it runs.
CloseLocked(isClosed) == [closed |-> TRUE, callbacks |-> 0]

\* ResponseChannel<ResponseSink>::add_after_close_callback: the sink of channel
\* c is given a callback to run after close.
add_after_close_callback(hs, c) == hs \cup {c}

\* Notify::notify_waiters: wakes the Notified futures that exist now; no permit
\* is kept for a future created later.
NotifyWaiters(c) == IF c \in notified THEN woken \cup {c} ELSE woken

\* ------------------------------------------------------------- the facade
\* send_api_command takes &mut self: a call enters it only after the previous
\* call has left it (its stream may still be awaited).
InSend == {c \in Chans : pc[c] = "send"}

\* MakeResponseChannel with the insert into sink_by_tag left for later: the
\* channel is created and the tag drawn, but the registry is not touched
\* before the send.
MakeResponseChannelWithoutInsert(c) ==
    /\ pc[c] = "idle"
    /\ c = next_id
    /\ InSend = {}
    /\ lock = "free"
    /\ next_id' = next_id + 1
    /\ hooks' = add_after_close_callback(hooks, c)
    /\ pc' = [pc EXCEPT ![c] = "send"]
    /\ UNCHANGED <<accountVars, connVars, codecVars, statusVars, lockVars,
                   sink_by_tag, lock, hookRuns, result, chanVars, loopVars>>

\* MakeResponseChannel with the tag formatted from a constant instead of the
\* counter: every call registers under cmd_1.
MakeResponseChannelFixedTag(c) ==
    /\ pc[c] = "idle"
    /\ c = next_id
    /\ InSend = {}
    /\ lock = "free"
    /\ next_id' = next_id + 1
    /\ hooks' = add_after_close_callback(hooks, c)
    /\ sink_by_tag' = [sink_by_tag EXCEPT ![CustomTag(1)] = Some(c)]
    /\ pc' = [pc EXCEPT ![c] = "send"]
    /\ UNCHANGED <<accountVars, connVars, codecVars, statusVars, lockVars,
                   lock, hookRuns, result, chanVars, loopVars>>

\* send_api_command, lines 48-50: build_command draws the tag from next_id,
\* make_response_channel creates the channel, gives the sink its after-close
\* callback and inserts the sink under the tag (registry lock taken and
\* released without an await in between).
MakeResponseChannel(c) ==
    /\ pc[c] = "idle"
    /\ c = next_id
    /\ InSend = {}
    /\ lock = "free"
    /\ next_id' = next_id + 1
    /\ hooks' = add_after_close_callback(hooks, c)
    /\ sink_by_tag' = [sink_by_tag EXCEPT ![CustomTag(next_id)] = Some(c)]
    /\ pc' = [pc EXCEPT ![c] = "send"]
    /\ UNCHANGED <<accountVars, connVars, codecVars, statusVars, lockVars,
                   lock, hookRuns, result, chanVars, loopVars>>

\* send_api_command, lines 51-53: the message is sent on the api sink; a send
\* error returns MessageCannotBeSend and drops the stream handle.
SendMessage(c) ==
    /\ pc[c] = "send"
    /\ \E sendOk \in BOOLEAN :
          pc' = [pc EXCEPT ![c] = IF sendOk THEN "read" ELSE "failed"]
    /\ UNCHANGED <<accountVars, connVars, codecVars, statusVars, lockVars,
                   next_id, sink_by_tag, lock, hooks, hookRuns, result, chanVars,
                   loopVars>>

\* read(), lines 157-165: the locked block.
ReadCheck(c) ==
    /\ pc[c] = "read"
    /\ LET r == ReadLocked(closed[c], queue[c]) IN
          /\ queue' = [queue EXCEPT ![c] = r.queue]
          /\ result' = [result EXCEPT ![c] = r.val]
          /\ pc' = [pc EXCEPT ![c] = IF r.brk THEN "close" ELSE "notified"]
    /\ UNCHANGED <<got, accountVars, connVars, codecVars, statusVars, lockVars,
                   next_id, sink_by_tag, lock, hooks, hookRuns, closed, notified,
                   woken, written, loopVars>>

\* read(), line 166: self.notify.notified() creates the Notified future.
ReadNotified(c) ==
    /\ pc[c] = "notified"
    /\ notified' = notified \cup {c}
    /\ woken' = woken \ {c}
    /\ pc' = [pc EXCEPT ![c] = "await"]
    /\ UNCHANGED <<got, accountVars, connVars, codecVars, statusVars, lockVars,
                   next_id, sink_by_tag, lock, hooks, hookRuns, result, queue,
                   closed, written, loopVars>>

\* read(), line 166: .await completes once the future has been woken; the loop
\* starts over.
ReadAwait(c) ==
    /\ pc[c] = "await"
    /\ c \in woken
    /\ notified' = notified \ {c}
    /\ woken' = woken \ {c}
    /\ pc' = [pc EXCEPT ![c] = "read"]
    /\ UNCHANGED <<got, accountVars, connVars, codecVars, statusVars, lockVars,
                   next_id, sink_by_tag, lock, hooks, hookRuns, result, queue,
                   closed, written, loopVars>>

\* first(), lines 172-173: close() on the stream handle, then msg is returned.
FirstClose(c) ==
    /\ pc[c] = "close"
    /\ LET r == CloseLocked(closed[c]) IN
          /\ closed' = [closed EXCEPT ![c] = r.closed]
          /\ hookRuns' = [hookRuns EXCEPT ![c] = @ + r.callbacks]
    /\ pc' = [pc EXCEPT ![c] = "done"]
    /\ UNCHANGED <<got, accountVars, connVars, codecVars, statusVars, lockVars,
                   next_id, sink_by_tag, lock, hooks, result, queue, notified,
                   woken, written, loopVars>>

\* first() on the stream handle of channel c.
Consumer(c) ==
    \/ ReadCheck(c)
    \/ ReadNotified(c)
    \/ ReadAwait(c)
    \/ FirstClose(c)

\* What login()/logout() return once send_api_command and first() are over:
\* `?` on the send error, ok_or_no_response()?, try_into()?, then the match
\* on the command result.
AccountResult(c) ==
    IF pc[c] = "failed" THEN [kind |-> "MessageCannotBeSend", ok |-> FALSE]
    ELSE LET r == ok_or_no_response(result[c]) IN
         IF ~r.ok THEN [kind |-> r.err, ok |-> FALSE]
         ELSE LET cr == TryIntoCommandResult(Unwrap(r.val)) IN
              IF ~cr.ok THEN [kind |-> "ParseResponseError", ok |-> FALSE]
              ELSE IF Unwrap(cr.val).status THEN [kind |-> "Ok", ok |-> TRUE]
              ELSE [kind |-> "CommandFailed", ok |-> FALSE]

\* The session id of the success response login() got, if it got one.
LoginSessionId(c) ==
    Unwrap(TryIntoCommandResult(Unwrap(result[c])).val).stream_session_id

\* login(), lines 105-112, when call c is a login: on Ok(resp) the session id
\* of resp is stored as it is.
LoginReturn(c) ==
    /\ pc[c] \in {"done", "failed"}
    /\ outcome' = [outcome EXCEPT ![c] =
                      Some([command |-> "login", kind |-> AccountResult(c).kind])]
    /\ stream_session_id' = IF AccountResult(c).ok THEN LoginSessionId(c)
                            ELSE stream_session_id
    /\ pc' = [pc EXCEPT ![c] = "returned"]
    /\ UNCHANGED <<clientVars, hookRuns, result, chanVars, loopVars, connVars,
                   codecVars, statusVars, lockVars>>

\* LogoutReturn with the stored session id cleared.
LogoutReturnClearsSession(c) ==
    /\ pc[c] \in {"done", "failed"}
    /\ outcome' = [outcome EXCEPT ![c] =
                      Some([command |-> "logout", kind |-> AccountResult(c).kind])]
    /\ stream_session_id' = None
    /\ pc' = [pc EXCEPT ![c] = "returned"]
    /\ UNCHANGED <<clientVars, hookRuns, result, chanVars, loopVars, connVars,
                   codecVars, statusVars, lockVars>>

\* logout(), lines 116-117, when call c is a logout.
LogoutReturn(c) ==
    /\ pc[c] \in {"done", "failed"}
    /\ outcome' = [outcome EXCEPT ![c] =
                      Some([command |-> "logout", kind |-> AccountResult(c).kind])]
    /\ pc' = [pc EXCEPT ![c] = "returned"]
    /\ UNCHANGED <<clientVars, hookRuns, result, chanVars, loopVars, connVars,
                   codecVars, statusVars, lockVars, stream_session_id>>

Caller(c) ==
    \/ MakeResponseChannel(c)
    \/ SendMessage(c)
    \/ Consumer(c)

\* ------------------------------------------------------ the receiver tasks
\* LookupSink with the tag of the response ignored: any tagged response gets
\* the sink stored under the first tag.
LookupSinkIgnoringTag(tag) ==
    IF tag = None THEN None ELSE sink_by_tag[CustomTag(1)]

\* LookupSink with a response that has no tag handed to the sink stored under
\* the first tag.
LookupSinkUntaggedToFirst(tag) ==
    IF tag = None THEN sink_by_tag[CustomTag(1)]
    ELSE IF Unwrap(tag) \in DOMAIN sink_by_tag THEN sink_by_tag[Unwrap(tag)]
    ELSE None

\* LookupSink with a response whose channel is closed handed to the sink
\* stored under the tag of the next call.
LookupSinkClosedToNext(tag) ==
    IF tag = None THEN None
    ELSE IF Unwrap(tag) \notin DOMAIN sink_by_tag THEN None
    ELSE IF sink_by_tag[Unwrap(tag)] = None THEN None
    ELSE LET c == Unwrap(sink_by_tag[Unwrap(tag)]) IN
         IF closed[c] /\ c + 1 \in Chans
         THEN sink_by_tag[CustomTag(c + 1)]
         ELSE sink_by_tag[Unwrap(tag)]

\* tag.and_then(|tag| guard.get_mut(&tag))
LookupSink(tag) ==
    IF tag = None THEN None
    ELSE IF Unwrap(tag) \in DOMAIN sink_by_tag THEN sink_by_tag[Unwrap(tag)]
    ELSE None

\* for_each closure, lines 226-249, for a payload that ends without a write:
\* Some(Err(_)) and a message that does not decode are passed over;
\* a decoded message takes the registry lock, finds no sink for its tag and
\* drops the guard.
ReceiveAndDrop(l) ==
    /\ dpc[l] = "recv"
    /\ frames < MaxFrames
    /\ frames' = frames + 1
    /\ \/ /\ errSeen' = [errSeen EXCEPT ![l] = TRUE]
          /\ dpayload' = Some(Err("WSError"))
       \/ \E message \in InboundMessages :
             LET r == ResponseInfoTryFrom(message) IN
             /\ r.ok => /\ lock = "free"
                        /\ LookupSink(Unwrap(r.val).custom_tag) = None
             /\ dpayload' = Some(Ok(message))
             /\ UNCHANGED errSeen
    /\ UNCHANGED <<accountVars, connVars, codecVars, statusVars, lockVars,
                   next_id, sink_by_tag, lock, hooks, hookRuns, pc, result,
                   chanVars, dpc, dinfo, dsink, wpc>>

\* for_each closure, lines 226-235, for a message that decodes and whose tag has
\* a sink: the registry lock is taken and held across write().
ReceiveAndLookup(l) ==
    /\ dpc[l] = "recv"
    /\ frames < MaxFrames
    /\ lock = "free"
    /\ \E message \in InboundMessages :
          LET r == ResponseInfoTryFrom(message) IN
          /\ r.ok
          /\ LookupSink(Unwrap(r.val).custom_tag) # None
          /\ dinfo' = [dinfo EXCEPT ![l] = r.val]
          /\ dsink' = [dsink EXCEPT ![l] = LookupSink(Unwrap(r.val).custom_tag)]
          /\ dpayload' = Some(Ok(message))
    /\ frames' = frames + 1
    /\ lock' = l
    /\ dpc' = [dpc EXCEPT ![l] = "write"]
    /\ UNCHANGED <<accountVars, connVars, codecVars, statusVars, lockVars,
                   next_id, sink_by_tag, hooks, hookRuns, pc, result, chanVars,
                   errSeen, wpc>>

\* The stream yields None: for_each completes and receiver returns.
StreamEnd(l) ==
    /\ dpc[l] = "recv"
    /\ dpc' = [dpc EXCEPT ![l] = "done"]
    /\ UNCHANGED dpayload
    /\ UNCHANGED <<accountVars, connVars, codecVars, statusVars, lockVars,
                   next_id, sink_by_tag, lock, hooks, hookRuns, pc, result,
                   chanVars, dinfo, dsink, errSeen, frames, wpc>>

\* WritePush on a channel that holds one item at most: the push waits until
\* the consumer has taken the item queued before.
WritePushWaitsForReader(l) ==
    /\ dpc[l] = "write"
    /\ Len(queue[Unwrap(dsink[l])]) = 0
    /\ LET c == Unwrap(dsink[l])
           info == Unwrap(dinfo[l]) IN
          /\ queue' = [queue EXCEPT ![c] = WriteLocked(closed[c], @, info)]
          /\ written' = [written EXCEPT ![c] = Append(@, info)]
    /\ dpc' = [dpc EXCEPT ![l] = "notify"]
    /\ UNCHANGED <<got, accountVars, connVars, codecVars, statusVars, lockVars,
                   next_id, sink_by_tag, lock, hooks, hookRuns, pc, result, closed,
                   notified, woken, dinfo, dsink, errSeen, dpayload, frames, wpc>>

\* write(), line 182.
WritePush(l) ==
    /\ dpc[l] = "write"
    /\ LET c == Unwrap(dsink[l])
           info == Unwrap(dinfo[l]) IN
          /\ queue' = [queue EXCEPT ![c] = WriteLocked(closed[c], @, info)]
          /\ written' = [written EXCEPT ![c] = Append(@, info)]
    /\ dpc' = [dpc EXCEPT ![l] = "notify"]
    /\ UNCHANGED <<got, accountVars, connVars, codecVars, statusVars, lockVars,
                   next_id, sink_by_tag, lock, hooks, hookRuns, pc, result, closed,
                   notified, woken, dinfo, dsink, errSeen, dpayload, frames, wpc>>

\* write(), line 183, and the end of the Ok arm: the registry guard is dropped.
WriteNotify(l) ==
    /\ dpc[l] = "notify"
    /\ woken' = NotifyWaiters(Unwrap(dsink[l]))
    /\ lock' = "free"
    /\ dpc' = [dpc EXCEPT ![l] = "recv"]
    /\ dinfo' = [dinfo EXCEPT ![l] = None]
    /\ dsink' = [dsink EXCEPT ![l] = None]
    /\ UNCHANGED <<got, accountVars, connVars, codecVars, statusVars, lockVars,
                   next_id, sink_by_tag, hooks, hookRuns, pc, result, queue, closed,
                   notified, written, errSeen, dpayload, frames, wpc>>

Receiver(l) ==
    \/ ReceiveAndDrop(l)
    \/ ReceiveAndLookup(l)
    \/ StreamEnd(l)
    \/ WritePush(l)
    \/ WriteNotify(l)

Next ==
    \/ \E c \in Chans : Caller(c)
    \/ \E l \in Loops : Receiver(l)

Spec == Init /\ [][Next]_vars

\* The client with the tails of login() and logout(): send_api_command does
\* not depend on the command, so which of the two a call is shows only when
\* it returns.
AccountNext ==
    \/ Next
    \/ \E c \in Chans : LoginReturn(c)
    \/ \E c \in Chans : LogoutReturn(c)

AccountSpec == Init /\ [][AccountNext]_vars

\* The runtime eventually runs every task that can run: a call that has
\* registered its channel goes on, and a receiver task that holds a decoded
\* message completes its write. Nothing obliges a caller to start a call, or a
\* stream to yield.
FairSpec ==
    /\ Spec
    /\ \A c \in Chans : WF_vars(SendMessage(c) \/ Consumer(c))
    /\ \A l \in Loops : WF_vars(WritePush(l) \/ WriteNotify(l))

\* ------------------------------------------- the client, lock by lock
\* The client with every acquisition of a channel-state lock as a step of its
\* own: read(), close() and write() each take the lock of their channel
\* (self.state.lock().await), act, and release it.

\* read(), line 158: the state lock is taken.
ReadLock(c) ==
    /\ pc[c] = "read"
    /\ slock[c] = "free"
    /\ slock' = [slock EXCEPT ![c] = "stream_handle"]
    /\ pc' = [pc EXCEPT ![c] = "read_locked"]
    /\ UNCHANGED <<clientVars, hookRuns, result, chanVars, loopVars,
                   accountVars, connVars, codecVars, statusVars>>

\* read(), lines 159-165: the checks under the lock; the guard is dropped at
\* the end of the block.
ReadCheckLocked(c) ==
    /\ pc[c] = "read_locked"
    /\ LET r == ReadLocked(closed[c], queue[c]) IN
          /\ queue' = [queue EXCEPT ![c] = r.queue]
          /\ result' = [result EXCEPT ![c] = r.val]
          /\ pc' = [pc EXCEPT ![c] = IF r.brk THEN "close" ELSE "notified"]
    /\ slock' = [slock EXCEPT ![c] = "free"]
    /\ UNCHANGED <<clientVars, hookRuns, closed, notified, woken, written, got,
                   loopVars, accountVars, connVars, codecVars, statusVars>>

\* close(), line 140: the state lock is taken.
CloseLock(c) ==
    /\ pc[c] = "close"
    /\ slock[c] = "free"
    /\ slock' = [slock EXCEPT ![c] = "stream_handle"]
    /\ pc' = [pc EXCEPT ![c] = "close_locked"]
    /\ UNCHANGED <<clientVars, hookRuns, result, chanVars, loopVars,
                   accountVars, connVars, codecVars, statusVars>>

\* CloseUnlock with the removal of the tag from the registry done inside
\* close(), under the state lock: the registry lock is taken while the state
\* lock is held.
CloseUnlockTakingRegistry(c) ==
    /\ pc[c] = "close_locked"
    /\ lock = "free"
    /\ sink_by_tag' = [sink_by_tag EXCEPT ![CustomTag(c)] = None]
    /\ closed' = [closed EXCEPT ![c] = TRUE]
    /\ slock' = [slock EXCEPT ![c] = "free"]
    /\ pc' = [pc EXCEPT ![c] = "done"]
    /\ UNCHANGED <<next_id, lock, hooks, hookRuns, result, queue, notified,
                   woken, written, got, loopVars, accountVars, connVars,
                   codecVars, statusVars>>

\* close(), line 140: the flag is set and the guard dropped; first() returns.
CloseUnlock(c) ==
    /\ pc[c] = "close_locked"
    /\ LET r == CloseLocked(closed[c]) IN
          /\ closed' = [closed EXCEPT ![c] = r.closed]
          /\ hookRuns' = [hookRuns EXCEPT ![c] = @ + r.callbacks]
    /\ slock' = [slock EXCEPT ![c] = "free"]
    /\ pc' = [pc EXCEPT ![c] = "done"]
    /\ UNCHANGED <<clientVars, result, queue, notified, woken, written, got,
                   loopVars, accountVars, connVars, codecVars, statusVars>>

\* write(), line 182: the state lock is taken, by a receiver task that holds
\* the registry lock.
WriteLock(l) ==
    /\ dpc[l] = "write"
    /\ slock[Unwrap(dsink[l])] = "free"
    /\ slock' = [slock EXCEPT ![Unwrap(dsink[l])] = l]
    /\ dpc' = [dpc EXCEPT ![l] = "write_locked"]
    /\ UNCHANGED <<clientVars, hookRuns, pc, result, chanVars, dinfo, dsink,
                   errSeen, dpayload, frames, wpc, accountVars, connVars,
                   codecVars, statusVars>>

\* write(), line 182: push_back under the lock; the guard is dropped at the
\* end of the statement.
WritePushLocked(l) ==
    /\ dpc[l] = "write_locked"
    /\ LET c == Unwrap(dsink[l])
           info == Unwrap(dinfo[l]) IN
          /\ queue' = [queue EXCEPT ![c] = WriteLocked(closed[c], @, info)]
          /\ written' = [written EXCEPT ![c] = Append(@, info)]
          /\ slock' = [slock EXCEPT ![c] = "free"]
    /\ dpc' = [dpc EXCEPT ![l] = "notify"]
    /\ UNCHANGED <<clientVars, hookRuns, pc, result, closed, notified, woken,
                   got, dinfo, dsink, errSeen, dpayload, frames, wpc,
                   accountVars, connVars, codecVars, statusVars>>

\* The steps of a call once it has started.
LockCaller(c) ==
    \/ SendMessage(c)
    \/ ReadLock(c)
    \/ ReadCheckLocked(c)
    \/ ReadNotified(c)
    \/ ReadAwait(c)
    \/ CloseLock(c)
    \/ CloseUnlock(c)

\* The steps of a receiver task once it has a response to deliver.
LockDeliver(l) ==
    \/ WriteLock(l)
    \/ WritePushLocked(l)
    \/ WriteNotify(l)

LockNext ==
    \/ \E c \in Chans : MakeResponseChannel(c)
    \/ \E c \in Chans : LockCaller(c)
    \/ \E l \in Loops : ReceiveAndDrop(l)
    \/ \E l \in Loops : ReceiveAndLookup(l)
    \/ \E l \in Loops : StreamEnd(l)
    \/ \E l \in Loops : LockDeliver(l)

LockSpec == Init /\ [][LockNext]_vars

\* ------------------------------------------- a channel used on its own
\* ResponseChannel::new() outside the client: for each channel one task holds
\* the stream handle and calls first(), another holds the sink handle and
\* calls write() any number of times and then, possibly, close().
ChannelInit ==
    /\ next_id = 1
    /\ sink_by_tag = [t \in TagStrings |-> None]
    /\ lock = "free"
    /\ queue = [c \in Chans |-> << >>]
    /\ closed = [c \in Chans |-> FALSE]
    /\ hooks = {}
    /\ hookRuns = [c \in Chans |-> 0]
    /\ pc = [c \in Chans |-> "read"]
    /\ result = [c \in Chans |-> None]
    /\ notified = {}
    /\ woken = {}
    /\ dpc = [l \in Loops |-> "done"]
    /\ dinfo = [l \in Loops |-> None]
    /\ dsink = [l \in Loops |-> None]
    /\ errSeen = [l \in Loops |-> FALSE]
    /\ dpayload = None
    /\ frames = 0
    /\ wpc = [c \in Chans |-> "ready"]
    /\ written = [c \in Chans |-> << >>]
    /\ got = [c \in Chans |-> << >>]
    /\ stream_session_id = None
    /\ outcome = [c \in Chans |-> None]
    /\ cstatus = "none"
    /\ clog = << >>
    /\ ccmd = None
    /\ cframe = JNull
    /\ cdecoded = None
    /\ cwire = None
    /\ cbuild = None
    /\ sres = [c \in Chans |-> None]
    /\ slock = [c \in Chans |-> "free"]

\* The items a producer writes: the decoded replies to the first tag (a success
\* and a failure).
Items == {Unwrap(ResponseInfoTryFrom(m).val) :
             m \in {x \in InboundMessages :
                       /\ ResponseInfoTryFrom(x).ok
                       /\ Unwrap(ResponseInfoTryFrom(x).val).custom_tag
                             = Some(CustomTag(1))}}

\* write(), line 182, through the sink handle.
SinkWritePush(c) ==
    /\ wpc[c] = "ready"
    /\ frames < MaxFrames
    /\ frames' = frames + 1
    /\ \E info \in Items :
          /\ queue' = [queue EXCEPT ![c] = WriteLocked(closed[c], @, info)]
          /\ written' = [written EXCEPT ![c] = Append(@, info)]
    /\ wpc' = [wpc EXCEPT ![c] = "notify"]
    /\ UNCHANGED <<got, accountVars, connVars, codecVars, statusVars, lockVars,
                   clientVars, hookRuns, pc, result, closed, notified, woken, dpc,
                   dinfo, dsink, errSeen, dpayload>>

\* write(), line 183, through the sink handle.
SinkWriteNotify(c) ==
    /\ wpc[c] = "notify"
    /\ woken' = NotifyWaiters(c)
    /\ wpc' = [wpc EXCEPT ![c] = "ready"]
    /\ UNCHANGED <<got, accountVars, connVars, codecVars, statusVars, lockVars,
                   clientVars, hookRuns, pc, result, queue, closed, notified,
                   written, dpc, dinfo, dsink, errSeen, dpayload, frames>>

\* close() through the sink handle, which it consumes.
SinkClose(c) ==
    /\ wpc[c] = "ready"
    /\ LET r == CloseLocked(closed[c]) IN
          /\ closed' = [closed EXCEPT ![c] = r.closed]
          /\ hookRuns' = [hookRuns EXCEPT ![c] = @ + r.callbacks]
    /\ wpc' = [wpc EXCEPT ![c] = "closed"]
    /\ UNCHANGED <<got, accountVars, connVars, codecVars, statusVars, lockVars,
                   clientVars, pc, result, queue, notified, woken, written, dpc,
                   dinfo, dsink, errSeen, dpayload, frames>>

\* The task holding the stream handle keeps the item a read() returned and
\* calls read() again (in place of the close() of first()).
ReadAgain(c) ==
    /\ pc[c] = "close"
    /\ result[c] # None
    /\ got' = [got EXCEPT ![c] = Append(@, Unwrap(result[c]))]
    /\ result' = [result EXCEPT ![c] = None]
    /\ pc' = [pc EXCEPT ![c] = "read"]
    /\ UNCHANGED <<clientVars, hookRuns, queue, closed, notified, woken, written,
                   loopVars, accountVars, connVars, codecVars, statusVars, lockVars>>

Producer(c) ==
    \/ SinkWritePush(c)
    \/ SinkWriteNotify(c)
    \/ SinkClose(c)

ChannelNext ==
    \/ \E c \in Chans : Consumer(c)
    \/ \E c \in Chans : ReadAgain(c)
    \/ \E c \in Chans : Producer(c)

ChannelSpec == ChannelInit /\ [][ChannelNext]_vars

\* ------------------------------------------- status() on a channel
\* ResponseChannel::new() outside the client: for each channel one task calls
\* status() on the stream handle while another holds the sink handle and
\* calls write() any number of times and then, possibly, close().
StatusInit ==
    /\ next_id = 1
    /\ sink_by_tag = [t \in TagStrings |-> None]
    /\ lock = "free"
    /\ queue = [c \in Chans |-> << >>]
    /\ closed = [c \in Chans |-> FALSE]
    /\ hooks = {}
    /\ hookRuns = [c \in Chans |-> 0]
    /\ pc = [c \in Chans |-> "status"]
    /\ result = [c \in Chans |-> None]
    /\ notified = {}
    /\ woken = {}
    /\ dpc = [l \in Loops |-> "done"]
    /\ dinfo = [l \in Loops |-> None]
    /\ dsink = [l \in Loops |-> None]
    /\ errSeen = [l \in Loops |-> FALSE]
    /\ dpayload = None
    /\ frames = 0
    /\ wpc = [c \in Chans |-> "ready"]
    /\ written = [c \in Chans |-> << >>]
    /\ got = [c \in Chans |-> << >>]
    /\ stream_session_id = None
    /\ outcome = [c \in Chans |-> None]
    /\ cstatus = "none"
    /\ clog = << >>
    /\ ccmd = None
    /\ cframe = JNull
    /\ cdecoded = None
    /\ cwire = None
    /\ cbuild = None
    /\ sres = [c \in Chans |-> None]
    /\ slock = [c \in Chans |-> "free"]

\* status(), line 130: self.closed().await takes the state lock, reads the
\* flag and releases the lock. Closed is returned when the flag is set;
\* otherwise the call goes on to queue_size().
StatusClosed(c) ==
    /\ pc[c] = "status"
    /\ IF closed[c]
       THEN /\ sres' = [sres EXCEPT ![c] =
                          Some([status |-> "Closed", closed |-> closed[c],
                                len |-> Len(queue[c])])]
            /\ pc' = [pc EXCEPT ![c] = "done"]
       ELSE /\ pc' = [pc EXCEPT ![c] = "queue_size"]
            /\ UNCHANGED sres
    /\ UNCHANGED <<clientVars, hookRuns, result, chanVars, loopVars,
                   accountVars, connVars, codecVars, lockVars>>

\* status(), lines 132-135: self.queue_size().await takes the state lock
\* again and reads the length of the queue: Ready when it is positive, Pending
\* otherwise. The state of the channel under this lock is kept with the answer.
StatusQueueSize(c) ==
    /\ pc[c] = "queue_size"
    /\ sres' = [sres EXCEPT ![c] =
                  Some([status |-> IF Len(queue[c]) > 0 THEN "Ready" ELSE "Pending",
                        closed |-> closed[c], len |-> Len(queue[c])])]
    /\ pc' = [pc EXCEPT ![c] = "done"]
    /\ UNCHANGED <<clientVars, hookRuns, result, chanVars, loopVars,
                   accountVars, connVars, codecVars, lockVars>>

StatusNext ==
    \/ \E c \in Chans : StatusClosed(c)
    \/ \E c \in Chans : StatusQueueSize(c)
    \/ \E c \in Chans : Producer(c)

StatusSpec == StatusInit /\ [][StatusNext]_vars

\* ------------------------------------------- connection::XtbStream
\* tungstenite Message, as far as receive() inspects it: a text message whose
\* text is the JSON serialisation of value v, a text message whose text is no
\* JSON at all, and a binary message whose bytes are not UTF-8.
WsText(v) == [type |-> "text", json |-> Some(v)]
WsGarbageText == [type |-> "text", json |-> None]
WsBinaryNotUtf8 == [type |-> "binary", json |-> None]

\* What SplitStream::next() can yield: None (the stream has ended),
\* Some(Err(_)), Some(Ok(message)).
StreamItems ==
    {[some |-> FALSE, ok |-> FALSE, message |-> None],
     [some |-> TRUE, ok |-> FALSE, message |-> None]}
    \cup {[some |-> TRUE, ok |-> TRUE, message |-> Some(m)] :
             m \in {WsText(v) : v \in InboundMessages}
                   \cup {WsGarbageText, WsBinaryNotUtf8}}

\* Message::to_text: the text of a text message; Err for bytes that are not
\* UTF-8.
to_text(message) ==
    IF message.type = "text" THEN Ok(message) ELSE Err("UnableToDecodeMessage")

\* serde_json::from_str::<Value>
from_str(text) ==
    IF text.json # None THEN Ok(Unwrap(text.json)) ELSE Err("serde_json::Error")

\* XtbStream::receive: next().await.unwrap() panics on None; map_err and `?`
\* return the receive and the decode error; Response::from(body) unwraps the
\* result of from_str. The outcome is a panic or the Result returned.
XtbStreamReceive(item) ==
    IF ~item.some THEN [panic |-> TRUE, res |-> Err("panic: unwrap on None")]
    ELSE IF ~item.ok
    THEN [panic |-> FALSE, res |-> Err("UnableToReceiveMessage")]
    ELSE LET text == to_text(Unwrap(item.message)) IN
         IF ~text.ok THEN [panic |-> FALSE, res |-> Err(text.err)]
         ELSE LET value == from_str(Unwrap(text.val)) IN
              IF ~value.ok
              THEN [panic |-> TRUE, res |-> Err("panic: unwrap on Err")]
              ELSE [panic |-> FALSE, res |-> Ok(Unwrap(value.val))]

\* A task that owns an XtbStream and calls receive() on it again and again.
ConnectionInit ==
    /\ next_id = 1
    /\ sink_by_tag = [t \in TagStrings |-> None]
    /\ lock = "free"
    /\ queue = [c \in Chans |-> << >>]
    /\ closed = [c \in Chans |-> FALSE]
    /\ hooks = {}
    /\ hookRuns = [c \in Chans |-> 0]
    /\ pc = [c \in Chans |-> "idle"]
    /\ result = [c \in Chans |-> None]
    /\ notified = {}
    /\ woken = {}
    /\ dpc = [l \in Loops |-> "done"]
    /\ dinfo = [l \in Loops |-> None]
    /\ dsink = [l \in Loops |-> None]
    /\ errSeen = [l \in Loops |-> FALSE]
    /\ dpayload = None
    /\ frames = 0
    /\ wpc = [c \in Chans |-> "none"]
    /\ written = [c \in Chans |-> << >>]
    /\ got = [c \in Chans |-> << >>]
    /\ stream_session_id = None
    /\ outcome = [c \in Chans |-> None]
    /\ cstatus = "running"
    /\ clog = << >>
    /\ ccmd = None
    /\ cframe = JNull
    /\ cdecoded = None
    /\ cwire = None
    /\ cbuild = None
    /\ sres = [c \in Chans |-> None]
    /\ slock = [c \in Chans |-> "free"]

\* One call of receive() by the task: it returns a Result, or the task panics.
ConnectionReceive ==
    /\ cstatus = "running"
    /\ Len(clog) < MaxFrames
    /\ \E item \in StreamItems :
          LET r == XtbStreamReceive(item) IN
          /\ cstatus' = IF r.panic THEN "panicked" ELSE "running"
          /\ clog' = Append(clog, [item |-> item, res |-> r.res])
    /\ UNCHANGED <<clientVars, hookRuns, pc, result, chanVars, dpc, dinfo, dsink,
                   errSeen, dpayload, frames, wpc, accountVars, codecVars, statusVars, lockVars>>

ConnectionNext == ConnectionReceive

ConnectionSpec == ConnectionInit /\ [][ConnectionNext]_vars

\* ------------------------------------------------ the codec on its own
\* The values the decoder is tried on: every object over these values of the
\* keys status, custom_tag and customTag, and a value that is not an object.
StatusValues ==
    {Absent, JNull, JBool(TRUE), JBool(FALSE), JNumber("1"), JString("true")}
TagValues ==
    {Absent, JNull, JString(CustomTag(1)), JString(CustomTag(2)), JNumber("7"),
     JBool(TRUE)}
Frames ==
    {JObject(st, tag, ctag, Absent) :
        st \in StatusValues, tag \in TagValues,
        ctag \in {Absent, JString(CustomTag(1))}}
    \cup {JNotObject}

\* The commands the encoder is tried on: ApiCommand as build_command makes it
\* for a non-streaming command, with or without a tag.
ApiCommands ==
    {[command |-> name, stream_session_id |-> None, custom_tag |-> tag,
      arguments |-> args] :
        name \in {"login", "logout"},
        tag \in {None} \cup {Some(t) : t \in TagStrings},
        args \in {None, Some("LoginArg")}}

\* The commands connection::XtbSink::send is tried on: connection::Command has
\* the same four fields.
ConnectionCommands ==
    {[command |-> name, stream_session_id |-> sid, custom_tag |-> tag,
      arguments |-> args] :
        name \in {"login", "logout"},
        sid \in {None, Some("abc")},
        tag \in {None, Some(CustomTag(1))},
        args \in {None, Some("LoginArg")}}

\* Serialize for Option<A>, A a struct, under skip_serializing_if: no key for
\* None, the object for Some.
SerializeOptionArguments(o) == IF o = None THEN Absent ELSE <<"object", Unwrap(o)>>

\* Serialize for Option<T> as serde derives it when the field has no
\* attribute: null for None, the value for Some.
SerializeOption(o, kind) == IF o = None THEN JNull ELSE <<kind, Unwrap(o)>>

\* derive(Serialize) for connection::Command: no rename and no skip
\* attribute, so the keys are the field names and every key is written.
SerializeCommand(cmd) ==
    [kind |-> "object",
     command |-> JString(cmd.command),
     arguments |-> SerializeOption(cmd.arguments, "object"),
     custom_tag |-> SerializeOption(cmd.custom_tag, "string"),
     stream_session_id |-> SerializeOption(cmd.stream_session_id, "string")]

\* build_command with the stored session id attached whatever is_streaming is.
build_command_always_session(command, args, is_streaming, id, session) ==
    [command |-> command, arguments |-> args,
     custom_tag |-> Some(CustomTag(id)), stream_session_id |-> session]

\* XtbClient::build_command: the tag comes from generate_unique_custom_tag
\* (next_id is id), the session id is the stored one (session) for a streaming
\* command and None otherwise.
build_command(command, args, is_streaming, id, session) ==
    [command |-> command, arguments |-> args,
     custom_tag |-> Some(CustomTag(id)),
     stream_session_id |-> IF is_streaming THEN session ELSE None]

\* Serialize for Option<String> under skip_serializing_if = "Option::is_none":
\* no key for None, a string for Some.
SerializeOptionString(o) == IF o = None THEN Absent ELSE JString(Unwrap(o))

\* derive(Serialize) for ApiCommand with rename_all = "camelCase": the keys
\* are command, streamSessionId, customTag and arguments.
SerializeApiCommand(cmd) ==
    [kind |-> "object",
     command |-> JString(cmd.command),
     streamSessionId |-> SerializeOptionString(cmd.stream_session_id),
     customTag |-> SerializeOptionString(cmd.custom_tag),
     arguments |-> SerializeOptionArguments(cmd.arguments)]

\* The frame a server makes of a command envelope it got: the envelope's keys
\* as they are, with a status added.
FrameFromCommand(wire, status) ==
    [kind |-> "object", status |-> JBool(status),
     custom_tag |-> Get(wire, "custom_tag"),
     customTag |-> Get(wire, "customTag"),
     returnData |-> Absent,
     command |-> Get(wire, "command")]

CodecInit ==
    /\ next_id = 1
    /\ sink_by_tag = [t \in TagStrings |-> None]
    /\ lock = "free"
    /\ queue = [c \in Chans |-> << >>]
    /\ closed = [c \in Chans |-> FALSE]
    /\ hooks = {}
    /\ hookRuns = [c \in Chans |-> 0]
    /\ pc = [c \in Chans |-> "idle"]
    /\ result = [c \in Chans |-> None]
    /\ notified = {}
    /\ woken = {}
    /\ dpc = [l \in Loops |-> "done"]
    /\ dinfo = [l \in Loops |-> None]
    /\ dsink = [l \in Loops |-> None]
    /\ errSeen = [l \in Loops |-> FALSE]
    /\ dpayload = None
    /\ frames = 0
    /\ wpc = [c \in Chans |-> "none"]
    /\ written = [c \in Chans |-> << >>]
    /\ got = [c \in Chans |-> << >>]
    /\ stream_session_id \in {None, Some("abc")}
    /\ outcome = [c \in Chans |-> None]
    /\ cstatus = "none"
    /\ clog = << >>
    /\ ccmd = None
    /\ cframe \in Frames
    /\ cdecoded = None
    /\ cwire = None
    /\ cbuild = None
    /\ sres = [c \in Chans |-> None]
    /\ slock = [c \in Chans |-> "free"]

\* build_message on a command, and the reply frame made of the envelope.
EncodeCommand ==
    /\ ccmd = None
    /\ \E cmd \in ApiCommands : \E status \in BOOLEAN :
          /\ ccmd' = Some(cmd)
          /\ cwire' = Some([command |-> cmd, object |-> SerializeApiCommand(cmd)])
          /\ cframe' = FrameFromCommand(SerializeApiCommand(cmd), status)
    /\ cdecoded' = None
    /\ UNCHANGED <<clientVars, hookRuns, pc, result, chanVars, loopVars,
                   accountVars, connVars, statusVars, lockVars, cbuild>>

\* ResponseInfo::new on the frame.
DecodeFrame ==
    /\ cdecoded = None
    /\ cdecoded' = Some(ResponseInfoNew(cframe))
    /\ UNCHANGED <<clientVars, hookRuns, pc, result, chanVars, loopVars,
                   accountVars, connVars, statusVars, lockVars, ccmd, cframe, cwire,
                   cbuild>>

\* One call of build_command, for an account command or a streaming one.
BuildCommand ==
    /\ cbuild = None
    /\ \E command \in {"login", "logout", "getTickPrices"} :
       \E args \in {None, Some("LoginArg")} :
       \E is_streaming \in BOOLEAN :
          cbuild' = Some([is_streaming |-> is_streaming,
                          stored |-> stream_session_id,
                          cmd |-> build_command(command, args, is_streaming,
                                                next_id, stream_session_id)])
    /\ next_id' = next_id + 1
    /\ UNCHANGED <<sink_by_tag, lock, hooks, hookRuns, pc, result, chanVars,
                   loopVars, accountVars, connVars, statusVars, lockVars, ccmd, cframe,
                   cdecoded, cwire>>

\* XtbSink::send, line 76: serde_json::to_string on a connection::Command.
XtbSinkSend ==
    /\ cwire = None
    /\ \E cmd \in ConnectionCommands :
          cwire' = Some([command |-> cmd, object |-> SerializeCommand(cmd)])
    /\ UNCHANGED <<clientVars, hookRuns, pc, result, chanVars, loopVars,
                   accountVars, connVars, statusVars, lockVars, ccmd, cframe, cdecoded,
                   cbuild>>

CodecNext ==
    \/ EncodeCommand
    \/ XtbSinkSend
    \/ BuildCommand
    \/ DecodeFrame

CodecSpec == CodecInit /\ [][CodecNext]_vars

\* ------------------------------------------------------------- properties
\* The task of call/channel c is inside read().
Reading(c) == pc[c] \in {"read", "notified", "await"}
\* Both inbound streams have yielded None.
AllStreamsEnded == \A l \in Loops : dpc[l] = "done"

\* C1: for tags registered in the registry, a response envelope carrying tag T
\* is appended only to the queue of the channel registered under T: every item
\* ever written to, and every item queued in, the channel registered under a
\* tag carries that tag.
C1_TagIsolation ==
    \A t \in TagStrings : \A c \in Chans :
        sink_by_tag[t] = Some(c) =>
            /\ \A i \in 1..Len(written[c]) : written[c][i].custom_tag = Some(t)
            /\ \A i \in 1..Len(queue[c]) : queue[c][i].custom_tag = Some(t)

\* Two tags are registered and each channel has been written to.
C1_Witness ==
    /\ sink_by_tag[CustomTag(1)] = Some(1)
    /\ sink_by_tag[CustomTag(2)] = Some(2)
    /\ Len(written[1]) > 0
    /\ Len(written[2]) > 0

\* C2: with several requests pending, no caller is left suspended in first()
\* once the reply carrying its tag has been written to its channel and sits in
\* the queue (its future has been woken, or the write that pushed the reply has
\* still to notify), and a caller that has returned from first() holds a
\* response, which carries its own tag.
C2_EachCallerReceivesItsReply ==
    \A c \in Chans :
        /\ (pc[c] = "await" /\ Len(queue[c]) > 0)
              => \/ c \in woken
                 \/ \E l \in Loops : dpc[l] = "notify" /\ dsink[l] = Some(c)
        /\ pc[c] = "done"
              => /\ result[c] # None
                 /\ Unwrap(result[c]).custom_tag = Some(CustomTag(c))

\* C3: once both inbound streams have ended (both receiver tasks have
\* returned, so that nothing can write to a channel any more), no caller whose
\* tag got no reply is suspended in first() on a future nobody has woken: it
\* is on its way to returning None, which ok_or_no_response turns into
\* NoResponseReceived.
C3_StreamEndYieldsNoResponse ==
    \A c \in Chans :
        (AllStreamsEnded /\ Len(written[c]) = 0)
            => /\ ~(pc[c] = "await" /\ c \notin woken)
               /\ pc[c] = "done"
                     => ok_or_no_response(result[c]) = Err("NoResponseReceived")

\* C4: when a receiver task whose stream yielded a transport error has
\* terminated, every channel registered in the registry is closed.
C4_ErrorClosesRegisteredChannels ==
    \A l \in Loops :
        (errSeen[l] /\ dpc[l] = "done") =>
            \A t \in TagStrings :
                sink_by_tag[t] # None => closed[Unwrap(sink_by_tag[t])]

\* C5: no lost wake-up: when the reader of an open channel is suspended in
\* read() and the queue holds a written item, a wake-up is on its way: its
\* Notified future has been woken, or the write() that pushed the item has
\* still to reach its notify_waiters().
C5_NoLostWakeup ==
    \A c \in Chans :
        (pc[c] = "await" /\ ~closed[c] /\ Len(queue[c]) > 0)
            => (c \in woken \/ wpc[c] = "notify")

\* C6: a close() of a channel whose reader is suspended in read() on an empty
\* queue wakes that reader.
C6_CloseWakesReader ==
    [][\A c \in Chans :
          (pc[c] = "await" /\ Len(queue[c]) = 0 /\ ~closed[c] /\ closed'[c])
              => c \in woken']_vars

\* C7: no step changes the queue of a channel whose closed flag is set.
C7_ClosedQueueUnchanged ==
    [][\A c \in Chans : closed[c] => queue'[c] = queue[c]]_vars

\* C8: once first() has returned for a request and closed its channel, the
\* registry holds no entry for the channel's tag, or the removal of the entry
\* has been set off (the after-close callback, which spawns it, has run).
C8_ClosedChannelDeregistered ==
    \A c \in Chans :
        (pc[c] = "done" /\ closed[c])
            => (sink_by_tag[CustomTag(c)] = None \/ hookRuns[c] > 0)

\* C9: the after-close callback of a channel runs exactly once: never more than
\* once, and once the channel is closed it has run.
C9_HookRunsExactlyOnce ==
    \A c \in hooks :
        /\ hookRuns[c] <= 1
        /\ closed[c] => hookRuns[c] = 1

\* C10: when first() has returned, it returned the item written earliest to
\* its channel, the channel is closed, and a read of the channel returns None
\* at once, whatever the queue holds.
C10_FirstReturnsEarliestAndCloses ==
    \A c \in Chans :
        pc[c] = "done" =>
            /\ Len(written[c]) > 0
            /\ result[c] = Some(written[c][1])
            /\ closed[c]
            /\ ReadLocked(closed[c], queue[c])
                  = [brk |-> TRUE, val |-> None, queue |-> queue[c]]

\* first() has returned and a further item is queued in its channel.
C10_Witness ==
    \E c \in Chans : pc[c] = "done" /\ Len(written[c]) = 2 /\ Len(queue[c]) = 1

\* C11: whenever a call is about to hand its command frame to the transport
\* (it is inside send_api_command, past make_response_channel), its tag is in
\* the registry with the sink of its channel; and a frame carrying that tag
\* that a receiver takes from then on finds the sink.
C11_RegisteredBeforeSend ==
    \A c \in Chans :
        pc[c] # "idle" =>
            /\ sink_by_tag[CustomTag(c)] = Some(c)
            /\ LookupSink(Some(CustomTag(c))) = Some(c)

\* A call is about to send, and nothing has been received yet.
C11_Witness ==
    \E c \in Chans : pc[c] = "send" /\ frames = 0

\* The key "custom_tag" of message m is absent or null, or is a string that
\* has no sink in the registry.
Untargeted(m) ==
    /\ m.kind = "object"
    /\ m.status # Absent /\ m.status[1] = "bool"
    /\ \/ m.custom_tag \in {Absent, JNull}
       \/ /\ m.custom_tag[1] = "string"
          /\ \A t \in TagStrings : m.custom_tag[2] = t => sink_by_tag[t] = None

\* Message m is a well-formed envelope whose tag has a sink in the registry.
Targeted(m) ==
    /\ m.kind = "object"
    /\ m.status # Absent /\ m.status[1] = "bool"
    /\ m.custom_tag[1] = "string"
    /\ \E t \in TagStrings : m.custom_tag[2] = t /\ sink_by_tag[t] # None

\* The step takes message m from an inbound stream.
Takes(m) == frames' = frames + 1 /\ dpayload' = Some(Ok(m))

\* The step leaves every channel, the registry and every receiver task's
\* position as they are.
NoEffect ==
    /\ queue' = queue
    /\ closed' = closed
    /\ written' = written
    /\ sink_by_tag' = sink_by_tag
    /\ dpc' = dpc

\* The step starts the delivery of message m to the channel registered under
\* its tag: some receiver task goes on to write() on that channel's sink.
Routes(m) ==
    \E l \in Loops :
        /\ dpc[l] = "recv" /\ dpc'[l] = "write"
        /\ dsink'[l] = sink_by_tag[m.custom_tag[2]]
        /\ Unwrap(dinfo'[l]).value = m

\* C12: a step that takes a response whose tag is absent, null or not in the
\* registry changes no channel and stops no receiver task; and a step that
\* takes a well-formed response with a registered tag, also after such a drop,
\* starts its delivery to the channel registered under the tag.
C12_UntargetedFrameDropped ==
    [][\A m \in InboundMessages :
          /\ (Takes(m) /\ Untargeted(m)) => NoEffect
          /\ (Takes(m) /\ Targeted(m)) => Routes(m)]_vars

\* A response with a null tag has just been dropped while a channel is
\* registered, and both receiver tasks are polling their streams.
C12_Witness ==
    /\ dpayload = Some(Ok(JObject(JBool(TRUE), JNull, Absent, JNumber("1"))))
    /\ sink_by_tag[CustomTag(1)] = Some(1)
    /\ \A l \in Loops : dpc[l] = "recv"

\* Message m fails envelope decoding: it is not an object, has no status, has
\* a status that is not a boolean, or has a tag that is neither null nor a
\* string.
Malformed(m) ==
    \/ m.kind # "object"
    \/ m.status = Absent
    \/ m.status[1] # "bool"
    \/ m.custom_tag[1] \notin {"absent", "null", "string"}

\* C13: a step that takes a frame that fails envelope decoding changes no
\* channel and not the registry and stops no receiver task; a step that takes
\* a well-formed response with a registered tag, also after such a skip,
\* starts its delivery.
C13_MalformedFrameSkipped ==
    [][\A m \in InboundMessages :
          /\ (Takes(m) /\ Malformed(m)) => NoEffect
          /\ (Takes(m) /\ ~Malformed(m) /\ Targeted(m)) => Routes(m)]_vars

\* A frame without status but with a registered tag has just been skipped, and
\* both receiver tasks are polling their streams.
C13_Witness ==
    /\ dpayload = Some(Ok(JObject(Absent, JString(CustomTag(1)), Absent, JNumber("1"))))
    /\ sink_by_tag[CustomTag(1)] = Some(1)
    /\ \A l \in Loops : dpc[l] = "recv"

\* The items the read() calls on channel c have returned so far, in order
\* (the last one may not have been handed on yet).
ReadSoFar(c) ==
    IF pc[c] \in {"close", "done"} /\ result[c] # None
    THEN Append(got[c], Unwrap(result[c]))
    ELSE got[c]

\* C14: the items successive read() calls on a channel return are, in order,
\* the first items written to the channel, for every interleaving of writes
\* and reads.
C14_ReadsInWriteOrder ==
    \A c \in Chans :
        /\ Len(ReadSoFar(c)) <= Len(written[c])
        /\ \A i \in 1..Len(ReadSoFar(c)) : ReadSoFar(c)[i] = written[c][i]

\* Two reads on one channel have returned two different items.
C14_Witness ==
    \E c \in Chans : Len(ReadSoFar(c)) = 2 /\ ReadSoFar(c)[1] # ReadSoFar(c)[2]

\* C15: scenario A: when login has sent its command with tag cmd_1 and the
\* reply {"status":true,"customTag":"cmd_1","streamSessionId":"abc"} is taken
\* from a stream, the step starts its delivery to login's channel; and when
\* login has returned, it returned success and the stored session id is "abc".
C15_ScenarioALoginSucceeds ==
    [][/\ (Takes(LoginSuccessFrame) /\ Reading(1) /\ sink_by_tag[CustomTag(1)] = Some(1))
          => \E l \in Loops : dpc'[l] = "write" /\ dsink'[l] = Some(1)
       /\ (/\ outcome'[1] # outcome[1]
           /\ Unwrap(outcome'[1]).command = "login"
           /\ result[1] # None /\ Unwrap(result[1]).value = LoginSuccessFrame)
          => /\ Unwrap(outcome'[1]).kind = "Ok"
             /\ stream_session_id' = Some("abc")]_vars

\* C16: scenario B: when logout has sent its command with tag cmd_2 and the
\* reply {"status":false,"customTag":"cmd_2","errorCode":"BE118",
\* "errorDescription":"User already logged"} is taken from a stream, the step
\* starts its delivery to logout's channel; and a logout that got this
\* response returns CommandFailed (not a parse error, not NoResponse).
C16_ScenarioBLogoutFails ==
    [][/\ (Takes(LogoutFailureFrame) /\ Reading(2) /\ sink_by_tag[CustomTag(2)] = Some(2))
          => \E l \in Loops : dpc'[l] = "write" /\ dsink'[l] = Some(2)
       /\ (/\ outcome'[2] # outcome[2]
           /\ Unwrap(outcome'[2]).command = "logout"
           /\ result[2] # None /\ Unwrap(result[2]).value = LogoutFailureFrame)
          => Unwrap(outcome'[2]).kind = "CommandFailed"]_vars

\* C17: a login that got a success response without a session id does not
\* return success.
C17_MissingSessionMarker ==
    \A c \in Chans :
        (/\ outcome[c] # None
         /\ Unwrap(outcome[c]).command = "login"
         /\ result[c] # None
         /\ Unwrap(result[c]).status
         /\ Get(Unwrap(result[c]).value, "stream_session_id") = Absent
         /\ Get(Unwrap(result[c]).value, "streamSessionId") = Absent)
            => Unwrap(outcome[c]).kind # "Ok"

\* The stream item is a failure at the connection boundary: the stream has
\* ended, a receive error, a message that is not text, or a text that does
\* not parse.
BoundaryFailure(item) ==
    \/ ~item.some
    \/ ~item.ok
    \/ Unwrap(item.message).type # "text"
    \/ Unwrap(item.message).json = None

\* C18: the task calling receive() never panics, and every failure at the
\* connection boundary came back as an Err value.
C18_BoundaryFailuresAreErrors ==
    /\ cstatus # "panicked"
    /\ \A i \in 1..Len(clog) :
          BoundaryFailure(clog[i].item) => ~clog[i].res.ok

\* C19: what decoding returned for a frame is: the not-an-object error for a
\* value that is not an object; else the missing-status error for an object
\* without status; else the invalid-status-type error for a status that is not
\* a boolean; else the invalid-tag-type error for a tag that is neither absent,
\* null nor a string; else success with the frame's status and its tag (None
\* when absent or null).
C19_DecodeClassification ==
    cdecoded # None =>
        LET r == Unwrap(cdecoded) IN
        IF cframe.kind # "object" THEN r = Err("NotAnObject")
        ELSE IF cframe.status = Absent THEN r = Err("StatusFieldMissing")
        ELSE IF cframe.status[1] # "bool" THEN r = Err("InvalidStatusType")
        ELSE IF cframe.custom_tag[1] \notin {"absent", "null", "string"}
        THEN r = Err("InvalidCustomTagType")
        ELSE /\ r.ok
             /\ Unwrap(r.val).status = (cframe.status = JBool(TRUE))
             /\ Unwrap(r.val).custom_tag =
                    (IF cframe.custom_tag[1] = "string"
                     THEN Some(cframe.custom_tag[2]) ELSE None)

\* A frame without status and with a number for tag has been decoded: the
\* status error came first.
C19_Witness ==
    /\ cdecoded = Some(Err("StatusFieldMissing"))
    /\ cframe.kind = "object"
    /\ cframe.custom_tag = JNumber("7")

\* C20: decoding the frame made of an encoded command envelope succeeds and
\* yields the tag the command was encoded with.
C20_TagRoundTrip ==
    (ccmd # None /\ cdecoded # None) =>
        /\ Unwrap(cdecoded).ok
        /\ Unwrap(Unwrap(cdecoded).val).custom_tag = Unwrap(ccmd).custom_tag

\* Call c has been made and has not returned from first(): its request is
\* pending.
Pending(c) == pc[c] \in {"send", "read", "notified", "await", "close"}

\* The step is the start of facade call c.
Starts(c) == pc[c] = "idle" /\ pc'[c] # "idle"

\* C21: the counter starts at 1; it changes only when a facade call starts,
\* and then by exactly one, whatever becomes of the call; the call registers
\* under cmd_<n> for the n the counter had, a tag no entry of the registry
\* has, and leaves the entry of every pending request as it was; and the tags
\* in the registry are those of counter values already passed, one per call.
C21_TagsFromCounter ==
    /\ next_id = 1
    /\ [][/\ next_id' # next_id => \E c \in Chans : Starts(c)
          /\ \A c \in Chans : Starts(c) =>
                /\ next_id' = next_id + 1
                /\ sink_by_tag[CustomTag(next_id)] = None
                /\ sink_by_tag'[CustomTag(next_id)] = Some(c)
                /\ \A n \in 1..(next_id - 1) : CustomTag(n) # CustomTag(next_id)
                /\ \A d \in Chans : \A t \in TagStrings :
                      (Pending(d) /\ sink_by_tag[t] = Some(d))
                          => sink_by_tag'[t] = Some(d)
          /\ \A t \in TagStrings :
                sink_by_tag'[t] # None =>
                    \E n \in 1..(next_id' - 1) : t = CustomTag(n)]_vars

\* Two requests are pending at once, after a first call whose send failed or
\* a second one made while the first still waits.
C21_Witness ==
    /\ next_id = 3
    /\ Pending(1) /\ Pending(2)
    /\ sink_by_tag[CustomTag(1)] = Some(1)
    /\ sink_by_tag[CustomTag(2)] = Some(2)

\* C22: a receiver task that has a response to deliver can always take its
\* next step, whatever the consumer of the channel does: the push when it is
\* about to push, the notification (after which it polls its stream again,
\* the registry lock released) when it has pushed.
C22_DeliveryNeverWaits ==
    \A l \in Loops :
        /\ dpc[l] = "write" => ENABLED WritePush(l)
        /\ dpc[l] = "notify" => ENABLED WriteNotify(l)

\* The caller of the first request has gone away (its send failed) and its
\* channel holds a reply nobody reads; a reply to the second request has been
\* delivered all the same, and both receiver tasks poll their streams.
C22_Witness ==
    /\ pc[1] = "failed"
    /\ Len(queue[1]) = 1
    /\ Len(written[2]) = 1
    /\ \A l \in Loops : dpc[l] = "recv"

\* C23: a pass of read() over a closed channel ends the read at once with
\* None and takes nothing from the queue, whatever the queue holds.
C23_ReadOnClosedReturnsNone ==
    [][\A c \in Chans :
          (pc[c] = "read" /\ closed[c] /\ pc'[c] # "read")
              => /\ pc'[c] = "close"
                 /\ result'[c] = None
                 /\ queue'[c] = queue[c]]_vars

\* A read() has returned None on a closed channel that holds an unread item.
C23_Witness ==
    \E c \in Chans :
        /\ pc[c] = "close" /\ result[c] = None
        /\ closed[c] /\ Len(queue[c]) > 0

\* The keys of a serialized object that are there, with any value.
Emitted(obj) == {k \in DOMAIN obj \ {"kind"} : obj[k] # Absent}

\* The optional fields of a command that are present.
PresentFields(cmd) ==
    {f \in {"arguments", "custom_tag", "stream_session_id"} : cmd[f] # None}

\* C24: the object a command was serialized to has the command name under
\* "command", no key with a null value, and as many keys besides "command" as
\* the command has optional fields that are present.
C24_EncodeOmitsAbsentFields ==
    cwire # None =>
        LET cmd == Unwrap(cwire).command
            obj == Unwrap(cwire).object IN
        /\ Get(obj, "command") = JString(cmd.command)
        /\ \A k \in Emitted(obj) : obj[k] # JNull
        /\ Cardinality(Emitted(obj)) = 1 + Cardinality(PresentFields(cmd))

\* C25: what status() returned fits the state the channel was in when the
\* call last looked at it: Closed only for a closed channel, Ready only for
\* an open channel with a queue that is not empty, Pending only for an open
\* channel with an empty queue.
C25_StatusReportsRealState ==
    \A c \in Chans :
        sres[c] # None =>
            LET r == Unwrap(sres[c]) IN
            /\ r.status = "Closed" => r.closed
            /\ r.status = "Ready" => (~r.closed /\ r.len > 0)
            /\ r.status = "Pending" => (~r.closed /\ r.len = 0)

\* C26: a command built as a streaming command carries the session id stored
\* at the time, and a command built otherwise carries none.
C26_SessionMarkerAttached ==
    cbuild # None =>
        LET b == Unwrap(cbuild) IN
        /\ b.is_streaming => b.cmd.stream_session_id = b.stored
        /\ ~b.is_streaming => b.cmd.stream_session_id = None

\* A streaming command has been built while a session id was stored.
C26_Witness ==
    /\ cbuild # None
    /\ Unwrap(cbuild).is_streaming
    /\ Unwrap(cbuild).stored = Some("abc")
    /\ Unwrap(cbuild).cmd.stream_session_id = Some("abc")

\* send_api_command sends every command on self.api.sink: the transport of
\* every request is the command connection.
Transport(c) == "api"

\* C28: a receiver task delivers a response only to a channel whose request
\* was sent on the connection the task reads from.
C28_TransportIsolation ==
    \A l \in Loops :
        dsink[l] # None => l = Transport(Unwrap(dsink[l]))

\* C29: when send_api_command has returned MessageCannotBeSend for a call,
\* the registry holds no entry for the tag of that call.
C29_NoLeakOnFailedSend ==
    \A c \in Chans :
        pc[c] = "failed" => sink_by_tag[CustomTag(c)] = None

AtLockStep ==
    \/ \E c \in Chans : pc[c] \in {"read", "read_locked", "close", "close_locked"}
    \/ \E l \in Loops : dpc[l] \in {"write", "write_locked", "notify"}

\* C27: the holder of a channel-state lock can always take its next step (it
\* waits for no lock); the holder of the registry lock is a receiver task
\* that is delivering; and whenever some task is at a step that takes, holds
\* or releases a lock, some task can take a step.
C27_NoDeadlock ==
    /\ \A c \in Chans :
          slock[c] # "free" =>
              ENABLED (\/ ReadCheckLocked(c)
                       \/ CloseUnlock(c)
                       \/ \E l \in Loops : dsink[l] = Some(c) /\ WritePushLocked(l))
    /\ lock # "free" => dpc[lock] \in {"write", "write_locked", "notify"}
    /\ AtLockStep =>
          ENABLED (\/ \E c \in Chans : LockCaller(c)
                   \/ \E l \in Loops : LockDeliver(l))

\* A receiver task holds the registry lock and waits for the state lock of a
\* channel, which the task in first() on that channel holds for its close().
C27_Witness ==
    \E l \in Loops : \E c \in Chans :
        /\ lock = l /\ dpc[l] = "write" /\ dsink[l] = Some(c)
        /\ slock[c] = "stream_handle"
        /\ pc[c] = "close_locked"

\* C31: what first() returned to a call is an item written to the channel of
\* that call and carries the tag of that call, so it is no reply to another
\* request, completed or not; and a reply that arrives for a completed
\* request (its channel is closed) is in the queue of no other channel.
C31_StaleRepliesNotMisdelivered ==
    \A c \in Chans :
        /\ result[c] # None =>
              /\ \E i \in 1..Len(written[c]) : written[c][i] = Unwrap(result[c])
              /\ Unwrap(result[c]).custom_tag = Some(CustomTag(c))
              /\ \A d \in Chans \ {c} :
                    Unwrap(result[c]).custom_tag # Some(CustomTag(d))
        /\ \A d \in Chans \ {c} : \A i \in 1..Len(queue[c]) :
              closed[d] => queue[c][i].custom_tag # Some(CustomTag(d))

\* The first request has completed and a second reply with its tag has
\* arrived since, while the second call waits in first() with nothing in its
\* queue.
C31_Witness ==
    /\ pc[1] = "done" /\ closed[1]
    /\ Len(written[1]) = 2
    /\ written[1][2].custom_tag = Some(CustomTag(1))
    /\ Reading(2) /\ queue[2] = << >> /\ result[2] = None
    /\ \A l \in Loops : dpc[l] = "recv"

====
